---- MODULE Spec2Model ----
(***************************************************************************)
(* A model of the Zig renderer of quicktype-core                           *)
(* (packages/quicktype-core/src/language/Zig.ts).                          *)
(*                                                                         *)
(* Strings are sequences of one-character strings, so that case            *)
(* conversion and identifier styling are computed character by character.  *)
(* A Sourcelike is the sequence of its string fragments.                   *)
(*                                                                         *)
(* Four specifications share the variables:                                *)
(*   SpecFile    startFile / endFile on one renderer                       *)
(*   SpecType    propertyZigType / zigType walking a type graph            *)
(*   SpecStruct  emitStruct / emitEnum with the rename table               *)
(*   SpecDriver  emitSourceStructure                                       *)
(***************************************************************************)
EXTENDS Integers, Sequences, FiniteSets, TLC

VARIABLES
    \* ---- SpecFile: ZigRenderer._currentFilename and the base renderer's files
    currentFilename,  \* Undefined or Some(filename)
    finishedFiles,    \* finished-files collection: filename -> buffer
    emitContext,      \* the buffer being written, a sequence of lines
    lastCall,         \* the last call made on the renderer and its outcome
    openBase,         \* basename given to the startFile that opened the file
    closedBases,      \* basenames whose startFile/endFile pair completed
    \* ---- SpecType: one call of propertyZigType
    types,            \* the type graph: node -> [kind, items, members]
    isOptional,       \* prop.isOptional
    stack,            \* the nodes of the active zigType calls, innermost last
    pc,               \* "call" | "ret" | "done" | "overflow" | "idle"
    acc,              \* the Sourcelike returned by the call that just ended
    \* ---- SpecStruct: one emitStruct / emitEnum
    declKind,         \* "class" | "enum"
    props,            \* properties / cases in order: [jsonName, isOptional, type]
    idx,              \* position of forEachClassProperty / forEachEnumCase
    renameFields,     \* the Map<Name, string>, in insertion order
    out,              \* the emitted lines
    \* ---- SpecDriver: one emitSourceStructure
    leadingComments,  \* Undefined or Some(lines)
    decls,            \* [topLevels, classes, unions, enums]
    phase,            \* position inside emitSourceStructure
    calls             \* the emit* calls made so far, in order

fileVars == <<currentFilename, finishedFiles, emitContext, lastCall, openBase, closedBases>>
typeVars == <<types, isOptional, stack, pc, acc>>
structVars == <<declKind, props, idx, renameFields, out>>
driverVars == <<leadingComments, decls, phase, calls>>
vars == <<fileVars, typeVars, structVars, driverVars>>

\* string | undefined
Undefined == <<>>
Some(x) == <<x>>

(***************************************************************************)
(* Strings                                                                 *)
(***************************************************************************)
UpperChars == {"A", "B", "D", "I", "O", "R"}
LowerChars == {"a", "b", "d", "i", "o", "r", "z", "g"}
DigitChars == {"0", "1", "2", "3", "4", "5", "6", "7", "8", "9"}

\* String.prototype.toLowerCase, one character
lowerChar(c) ==
    CASE c = "A" -> "a" [] c = "B" -> "b" [] c = "D" -> "d"
      [] c = "I" -> "i" [] c = "O" -> "o" [] c = "R" -> "r"
      [] OTHER -> c

upperChar(c) ==
    CASE c = "a" -> "A" [] c = "b" -> "B" [] c = "d" -> "D"
      [] c = "i" -> "I" [] c = "o" -> "O" [] c = "r" -> "R"
      [] OTHER -> c

toLowerCase(s) == [i \in 1..Len(s) |-> lowerChar(s[i])]

isWordCharacter(c) == c \in UpperChars \cup LowerChars \cup DigitChars

\* line 111: isAsciiLetterOrUnderscore
isAsciiLetterOrUnderscore(c) == c \in UpperChars \cup LowerChars \cup {"_"}

\* Words of a name: split at non-word characters and at lower-to-upper boundaries.
RECURSIVE splitFrom(_, _, _, _)
splitFrom(s, i, cur, words) ==
    IF i > Len(s)
    THEN IF cur = <<>> THEN words ELSE Append(words, cur)
    ELSE IF ~isWordCharacter(s[i])
         THEN splitFrom(s, i + 1, <<>>, IF cur = <<>> THEN words ELSE Append(words, cur))
         ELSE IF cur # <<>> /\ cur[Len(cur)] \in LowerChars /\ s[i] \in UpperChars
              THEN splitFrom(s, i + 1, <<s[i]>>, Append(words, cur))
              ELSE splitFrom(s, i + 1, Append(cur, s[i]), words)

splitIntoWords(s) == splitFrom(s, 1, <<>>, <<>>)

allLowerWordStyle(w) == toLowerCase(w)
firstUpperWordStyle(w) ==
    [i \in 1..Len(w) |-> IF i = 1 THEN upperChar(w[i]) ELSE lowerChar(w[i])]

RECURSIVE joinWords(_, _, _)
joinWords(words, isSnakeCase, separator) ==
    IF words = <<>> THEN <<>>
    ELSE LET w == IF isSnakeCase THEN allLowerWordStyle(Head(words))
                  ELSE firstUpperWordStyle(Head(words))
         IN  IF Len(words) = 1 THEN w
             ELSE w \o separator \o joinWords(Tail(words), isSnakeCase, separator)

\* combineWords: a name without any word is built from the word "empty"; a
\* name that does not begin with a start character gets "_" in front.
combineWords(words, isSnakeCase, separator) ==
    LET joined == joinWords(IF words = <<>> THEN << <<"e", "m", "p", "t", "y">> >> ELSE words,
                            isSnakeCase, separator)
    IN  IF isAsciiLetterOrUnderscore(joined[1]) THEN joined ELSE <<"_">> \o joined

zigNameStyle(original, isSnakeCase) ==
    LET words == splitIntoWords(original)
        combined == combineWords(words, isSnakeCase, IF isSnakeCase THEN <<"_">> ELSE <<>>)
    IN  IF combined = <<"_">>
        THEN <<"_", "u", "n", "d", "e", "r", "s", "c", "o", "r", "e">>
        ELSE combined

(***************************************************************************)
(* SpecFile: startFile / endFile                                           *)
(***************************************************************************)
\* Titles of named types, and the names makeNamedTypeNamer styles them to.
Titles == {<<"a", "b">>, <<"a", "-", "b">>, <<"b", "a">>, <<"b">>}
Basenames == {zigNameStyle(t, FALSE) : t \in Titles}

ZigExtension == <<".", "z", "i", "g">>

\* Lines a declaration may write between startFile and endFile.
MaxLines == 1

\* line 200: assert(this._currentFilename === undefined, ...)
startFileAssertNever(cur) == TRUE
startFileAssert(cur) == cur = Undefined

\* line 202: `${this.sourcelikeToString(basename)}.zig`.toLowerCase()
startFileNameAsGiven(basename) == basename \o ZigExtension
startFileName(basename) == toLowerCase(basename \o ZigExtension)

\* line 208: defined(this._currentFilename)
endFileDefined(cur) == cur # Undefined

\* Renderer.finishFile: the buffer is stored under the filename, a fresh one begins.
finishFile(files, filename, buffer) ==
    [f \in DOMAIN files \cup {filename} |-> IF f = filename THEN buffer ELSE files[f]]

startFile(basename) ==
    IF startFileAssert(currentFilename)
    THEN /\ currentFilename' = Some(startFileName(basename))
         /\ openBase' = Some(basename)
         /\ lastCall' = [op |-> "startFile", ok |-> TRUE]
         /\ UNCHANGED <<finishedFiles, emitContext, closedBases>>
    ELSE /\ lastCall' = [op |-> "startFile", ok |-> FALSE]
         /\ UNCHANGED <<currentFilename, finishedFiles, emitContext, openBase, closedBases>>

endFile ==
    IF endFileDefined(currentFilename)
    THEN /\ finishedFiles' = finishFile(finishedFiles, currentFilename[1], emitContext)
         /\ emitContext' = <<>>
         /\ currentFilename' = Undefined
         /\ closedBases' = IF openBase = Undefined THEN closedBases
                           ELSE closedBases \cup {openBase[1]}
         /\ openBase' = Undefined
         /\ lastCall' = [op |-> "endFile", ok |-> TRUE]
    ELSE /\ lastCall' = [op |-> "endFile", ok |-> FALSE]
         /\ UNCHANGED <<currentFilename, finishedFiles, emitContext, openBase, closedBases>>

\* A declaration writes one line into the buffer.
emitLineToFile ==
    /\ Len(emitContext) < MaxLines
    /\ emitContext' = Append(emitContext, IF openBase = Undefined THEN <<>> ELSE openBase[1])
    /\ lastCall' = [op |-> "emitLine", ok |-> TRUE]
    /\ UNCHANGED <<currentFilename, finishedFiles, openBase, closedBases>>

(***************************************************************************)
(* SpecType: propertyZigType / zigType over a type graph                   *)
(***************************************************************************)
\* Number of compound or named nodes (array, map, class, enum, union) of the graph.
NumCompound == 2
CompoundNodes == 1..NumCompound

\* The graph holds one node per primitive kind.
PrimitiveKinds == <<"any", "null", "bool", "integer", "double", "string">>
PrimitiveNodes == {10 + i : i \in 1..Len(PrimitiveKinds)}
primitiveNode(kind) == CHOOSE n \in PrimitiveNodes : PrimitiveKinds[n - 10] = kind
NullNode == primitiveNode("null")
StringNode == primitiveNode("string")
Nodes == CompoundNodes \cup PrimitiveNodes

\* The call stack the runtime allows before it reports a stack overflow.
MaxDepth == NumCompound + 3

\* A node: primitives and enums have no children; an array or a map has its
\* items / values; a union has its members; a class has its property types.
primitiveType(n) == [kind |-> PrimitiveKinds[n - 10], items |-> 0, members |-> {}]
EnumTypes == [kind : {"enum"}, items : {0}, members : {{}}]
ClassTypes == [kind : {"class"}, items : {0}, members : {{}} \cup {{n} : n \in CompoundNodes}]
ContainerTypes == [kind : {"array", "map"}, items : Nodes, members : {{}}]
UnionTypes ==
    [kind : {"union"}, items : {0},
     members : (SUBSET (CompoundNodes \cup {NullNode, StringNode})) \ {{}}]
CompoundTypes == EnumTypes \cup ClassTypes \cup ContainerTypes \cup UnionTypes

\* The type graphs over the nodes.
TypeGraphs ==
    {[n \in Nodes |-> IF n \in PrimitiveNodes THEN primitiveType(n) ELSE c[n]] :
        c \in [CompoundNodes -> CompoundTypes]}

\* The node propertyZigType is called on.
Root == 1

\* nameForNamedType: the name the naming pass resolved for a named type.
nameForNamedType(t) == "T" \o ToString(t)

\* TypeUtils.nullableFromUnion: the single non-null member of a union that has
\* Null as a member, otherwise null (0).
nullableFromUnion(u) ==
    LET nulls == {m \in types[u].members : types[m].kind = "null"}
        nonNulls == types[u].members \ nulls
    IN  IF nulls # {} /\ Cardinality(nonNulls) = 1
        THEN CHOOSE m \in nonNulls : TRUE
        ELSE 0

\* lines 275-279: the map arm names a union value that is not a nullable
mapValueIsNamedUnion(v) == types[v].kind = "union" /\ nullableFromUnion(v) = 0

\* zigType descending into the first property of a class.
zigTypeCalleeIntoClass(t) ==
    CASE types[t].kind = "array" -> types[t].items
      [] types[t].kind = "map" ->
            IF mapValueIsNamedUnion(types[t].items) THEN 0 ELSE types[t].items
      [] types[t].kind = "union" -> nullableFromUnion(t)
      [] types[t].kind = "class" /\ types[t].members # {} ->
            CHOOSE m \in types[t].members : TRUE
      [] OTHER -> 0

\* The node the arm of zigType for t calls zigType on, 0 when it makes no call.
zigTypeCallee(t) ==
    CASE types[t].kind = "array" -> types[t].items
      [] types[t].kind = "map" ->
            IF mapValueIsNamedUnion(types[t].items) THEN 0 ELSE types[t].items
      [] types[t].kind = "union" -> nullableFromUnion(t)
      [] OTHER -> 0

\* lines 248-251
nullableZigType(zigTypeOfT) == <<"?">> \o zigTypeOfT

\* lines 272-281
mapArm(t, sub) ==
    LET v == types[t].items
        valueSource == IF mapValueIsNamedUnion(v)
                       THEN <<"?", nameForNamedType(v)>>
                       ELSE sub
    IN  <<"std.StringHashMap(">> \o valueSource \o <<")">>

\* The union arm without the nullable case.
unionArmAlwaysNamed(t, sub) == <<nameForNamedType(t)>>

\* lines 283-287
unionArm(t, sub) ==
    IF nullableFromUnion(t) # 0 THEN nullableZigType(sub) ELSE <<nameForNamedType(t)>>

\* The Sourcelike the arm of zigType for t builds from the result of its call.
zigTypeArm(t, sub) ==
    CASE types[t].kind = "any" -> <<"std.json.Value">>
      [] types[t].kind = "null" -> <<"?[]u8">>
      [] types[t].kind = "bool" -> <<"bool">>
      [] types[t].kind = "integer" -> <<"i64">>
      [] types[t].kind = "double" -> <<"f64">>
      [] types[t].kind = "string" -> <<"[]u8">>
      [] types[t].kind = "array" -> <<"[]">> \o sub
      [] types[t].kind = "class" -> <<nameForNamedType(t)>>
      [] types[t].kind = "map" -> mapArm(t, sub)
      [] types[t].kind = "enum" -> <<nameForNamedType(t)>>
      [] types[t].kind = "union" -> unionArm(t, sub)

\* zigType as a function of the node (defined where the recursion ends).
RECURSIVE zigType(_)
zigType(t) ==
    zigTypeArm(t, IF zigTypeCallee(t) = 0 THEN <<>> ELSE zigType(zigTypeCallee(t)))

\* propertyZigType merging the property's optionality into a nullable type.
propertyZigTypeMerged(optional, zigTypeOfT) ==
    IF optional /\ Head(zigTypeOfT) # "?" THEN nullableZigType(zigTypeOfT) ELSE zigTypeOfT

\* lines 253-259
propertyZigTypeOf(optional, zigTypeOfT) ==
    IF optional THEN nullableZigType(zigTypeOfT) ELSE zigTypeOfT

\* zigType(t) reaches an arm that calls zigType again.
zigTypeCall ==
    /\ pc = "call"
    /\ zigTypeCallee(stack[Len(stack)]) # 0
    /\ Len(stack) < MaxDepth
    /\ stack' = Append(stack, zigTypeCallee(stack[Len(stack)]))
    /\ UNCHANGED <<types, isOptional, pc, acc>>

\* The recursion exhausts the call stack: RangeError, the render aborts.
zigTypeStackOverflow ==
    /\ pc = "call"
    /\ zigTypeCallee(stack[Len(stack)]) # 0
    /\ Len(stack) = MaxDepth
    /\ pc' = "overflow"
    /\ UNCHANGED <<types, isOptional, stack, acc>>

\* zigType(t) reaches an arm that makes no call, and returns.
zigTypeLeaf ==
    /\ pc = "call"
    /\ zigTypeCallee(stack[Len(stack)]) = 0
    /\ acc' = zigTypeArm(stack[Len(stack)], <<>>)
    /\ stack' = SubSeq(stack, 1, Len(stack) - 1)
    /\ pc' = "ret"
    /\ UNCHANGED <<types, isOptional>>

\* The inner call returned: the arm builds its Sourcelike and returns.
zigTypeReturn ==
    /\ pc = "ret"
    /\ stack # <<>>
    /\ acc' = zigTypeArm(stack[Len(stack)], acc)
    /\ stack' = SubSeq(stack, 1, Len(stack) - 1)
    /\ UNCHANGED <<types, isOptional, pc>>

\* zigType(prop.type) returned to propertyZigType, for an optional or a
\* required property.
propertyZigType(optional) ==
    /\ pc = "ret"
    /\ stack = <<>>
    /\ isOptional' = optional
    /\ acc' = propertyZigTypeOf(optional, acc)
    /\ pc' = "done"
    /\ UNCHANGED <<types, stack>>

(***************************************************************************)
(* SpecStruct: emitStruct / emitEnum and the rename table                  *)
(***************************************************************************)
\* Properties of a class, cases of an enum.
MaxProps == 2

\* External keys: JSON property names and enum values.
Keys ==
    {<<"i", "d">>, <<"I", "D">>, <<"i", "D">>, <<"i", "-", "d">>, <<"i", "d", "-">>, <<"o", "r">>}

\* lines 56-106: the keywords that can be spelled with the letters of Keys.
keywords == {<<"o", "r">>}

\* The sequences of pairwise distinct keys of a declaration.
KeyLists ==
    {ks \in UNION {[1..n -> Keys] : n \in 0..MaxProps} :
        \A i, j \in 1..Len(ks) : i # j => ks[i] # ks[j]}

\* The type of the properties of a class: a string, or the nullable union of node 1.
\* The other compound nodes of the sample graph are unions with a declaration.
PropertyTypes == {StringNode, 1}
SampleGraph ==
    [n \in Nodes |->
        IF n \in PrimitiveNodes THEN primitiveType(n)
        ELSE IF n = 1
             THEN [kind |-> "union", items |-> 0, members |-> {NullNode, StringNode}]
             ELSE [kind |-> "union", items |-> 0, members |-> {NullNode, StringNode, 1}]]

\* Namer.assignNames, first pass: in order, a name whose styled key is not
\* forbidden gets it; the others (left <<>>) are named in the second pass.
RECURSIVE assignStyled(_, _, _, _)
assignStyled(ks, i, names, forbidden) ==
    IF i > Len(ks) THEN names
    ELSE LET styled == zigNameStyle(ks[i], TRUE)
         IN  IF styled \in forbidden
             THEN assignStyled(ks, i + 1, Append(names, <<>>), forbidden)
             ELSE assignStyled(ks, i + 1, Append(names, styled), forbidden \cup {styled})

\* The first number from n on whose suffixed, styled key is not forbidden.
RECURSIVE freeSuffix(_, _, _)
freeSuffix(key, n, forbidden) ==
    IF zigNameStyle(key \o <<"_", ToString(n)>>, TRUE) \in forbidden
    THEN freeSuffix(key, n + 1, forbidden)
    ELSE n

\* Namer.assignNames, second pass: the remaining names get their key with a
\* numeric suffix, styled; the suffix counter is shared by all of them.
RECURSIVE assignSuffixed(_, _, _, _, _)
assignSuffixed(ks, i, names, forbidden, n) ==
    IF i > Len(ks) THEN names
    ELSE IF names[i] # <<>> THEN assignSuffixed(ks, i + 1, names, forbidden, n)
         ELSE LET m == freeSuffix(ks[i], n, forbidden)
                  name == zigNameStyle(ks[i] \o <<"_", ToString(m)>>, TRUE)
              IN  assignSuffixed(ks, i + 1, [names EXCEPT ![i] = name],
                                 forbidden \cup {name}, m + 1)

\* The names of the properties of a class or the cases of an enum (lines
\* 169-179: snakeNamingFunction; lines 185-195: the keywords are forbidden).
assignNames(ks) ==
    LET styled == assignStyled(ks, 1, <<>>, keywords)
        taken == keywords \cup {styled[i] : i \in 1..Len(styled)}
    IN  assignSuffixed(ks, 1, styled, taken \ {<<>>}, 1)

\* Map.prototype.set on the rename table, kept in insertion order.
mapSet(table, name, jsonName) ==
    IF \E i \in 1..Len(table) : table[i].name = name
    THEN [i \in 1..Len(table) |->
            IF table[i].name = name THEN [name |-> name, json |-> jsonName] ELSE table[i]]
    ELSE Append(table, [name |-> name, json |-> jsonName])

\* The table recording every field and case.
recordRenameAlways(table, name, jsonName) == mapSet(table, name, jsonName)

\* lines 300-302 and 321-323
recordRename(table, name, jsonName) ==
    IF name # jsonName THEN mapSet(table, name, jsonName) ELSE table

\* The two blocks with their extensions exchanged.
emitGettyBlockSwapped(renames, isSerialize) ==
    <<[t |-> "getty", extension |-> IF isSerialize THEN "db" ELSE "sb"],
      [t |-> "attributes"]>>
    \o [i \in 1..Len(renames) |->
          [t |-> "rename", name |-> renames[i].name, json |-> renames[i].json]]
    \o <<[t |-> "endBlock"], [t |-> "endBlock"]>>

\* lines 222-237
emitGettyBlock(renames, isSerialize) ==
    <<[t |-> "getty", extension |-> IF isSerialize THEN "sb" ELSE "db"],
      [t |-> "attributes"]>>
    \o [i \in 1..Len(renames) |->
          [t |-> "rename", name |-> renames[i].name, json |-> renames[i].json]]
    \o <<[t |-> "endBlock"], [t |-> "endBlock"]>>

\* lines 239-246
emitSerdeBlocks(renames) ==
    IF Len(renames) > 0
    THEN <<[t |-> "blank"]>> \o emitGettyBlock(renames, FALSE)
         \o <<[t |-> "blank"]>> \o emitGettyBlock(renames, TRUE)
    ELSE <<>>

\* emitDescription: the comment lines of a description, none without one.
emitDescription(described) == IF described THEN <<[t |-> "description"]>> ELSE <<>>

\* lines 298-299
structFieldLines(prop) ==
    emitDescription(prop.described)
    \o <<[t |-> "field", name |-> prop.name,
          type |-> propertyZigTypeOf(prop.isOptional, zigType(prop.type))]>>

\* line 320
enumCaseLines(prop) == <<[t |-> "case", name |-> prop.name]>>

\* structBody begins without a Map of its own.
newRenameFieldsKept(previous) == previous

\* lines 296 and 318: var renameFields = new Map<Name, string>()
newRenameFields(previous) == <<>>

\* lines 306 and 296: emitBlock opens the struct, structBody makes its table.
emitStructBegin ==
    /\ declKind = "class" /\ idx = 0
    /\ out' = Append(out, [t |-> "struct"])
    /\ renameFields' = newRenameFields(renameFields)
    /\ idx' = 1
    /\ UNCHANGED <<declKind, props, types>>

\* lines 297-303: the callback of forEachClassProperty for the next property.
emitStructField ==
    /\ declKind = "class" /\ idx \in 1..Len(props)
    /\ out' = out \o structFieldLines(props[idx])
    /\ renameFields' = recordRename(renameFields, props[idx].name, props[idx].jsonName)
    /\ idx' = idx + 1
    /\ UNCHANGED <<declKind, props, types>>

\* lines 327 and 318: emitBlock opens the enum, enumBody makes its table.
emitEnumBegin ==
    /\ declKind = "enum" /\ idx = 0
    /\ out' = Append(out, [t |-> "enum"])
    /\ renameFields' = newRenameFields(renameFields)
    /\ idx' = 1
    /\ UNCHANGED <<declKind, props, types>>

\* lines 319-324: the callback of forEachEnumCase for the next case.
emitEnumCase ==
    /\ declKind = "enum" /\ idx \in 1..Len(props)
    /\ out' = out \o enumCaseLines(props[idx])
    /\ renameFields' = recordRename(renameFields, props[idx].name, props[idx].jsonName)
    /\ idx' = idx + 1
    /\ UNCHANGED <<declKind, props, types>>

\* lines 304 and 325, then emitBlock closes the declaration.
emitDeclarationEnd ==
    /\ declKind \in {"class", "enum"} /\ idx = Len(props) + 1
    /\ out' = out \o emitSerdeBlocks(renameFields) \o <<[t |-> "end"]>>
    /\ idx' = idx + 1
    /\ UNCHANGED <<declKind, props, renameFields, types>>

(***************************************************************************)
(* SpecDriver: emitSourceStructure                                         *)
(***************************************************************************)
\* Top levels, classes, unions and enums of a graph, each.
MaxDecls == 2

\* The keys of the classes and enums the driver emits.
DriverKeyLists == {<< <<"i", "d">> >>, << <<"I", "D">> >>}

\* The properties or cases of a declaration with the keys ks.
declarationProps(ks) ==
    [i \in 1..Len(ks) |->
        [name |-> assignNames(ks)[i], jsonName |-> ks[i],
         isOptional |-> FALSE, type |-> StringNode, described |-> FALSE]]

\* forEachWithBlankLines: the blank line in front of item i.
blankBefore(location, i) ==
    IF \/ location = "leading-and-interposing"
       \/ location = "leading" /\ i = 1
       \/ location = "interposing" /\ i > 1
    THEN <<[t |-> "blank"]>>
    ELSE <<>>

\* lines 297-303, over the properties from i on: the field lines.
RECURSIVE structFields(_, _)
structFields(ps, i) ==
    IF i > Len(ps) THEN <<>> ELSE structFieldLines(ps[i]) \o structFields(ps, i + 1)

RECURSIVE enumCases(_, _)
enumCases(ps, i) ==
    IF i > Len(ps) THEN <<>> ELSE enumCaseLines(ps[i]) \o enumCases(ps, i + 1)

\* lines 297-303 and 319-324, over the properties from i on: the table.
RECURSIVE renamesOf(_, _, _)
renamesOf(ps, i, table) ==
    IF i > Len(ps) THEN table
    ELSE renamesOf(ps, i + 1, recordRename(table, ps[i].name, ps[i].jsonName))

\* lines 294-312: emitClass, a class without a description of its own.
emitClass(ps) ==
    <<[t |-> "struct"]>> \o structFields(ps, 1)
    \o emitSerdeBlocks(renamesOf(ps, 1, <<>>)) \o <<[t |-> "end"]>>

\* lines 314-328
emitEnum(ps) ==
    <<[t |-> "enum"]>> \o enumCases(ps, 1)
    \o emitSerdeBlocks(renamesOf(ps, 1, <<>>)) \o <<[t |-> "end"]>>

\* The members of a set of nodes in the order of the nodes.
RECURSIVE memberLines(_, _)
memberLines(ms, n) ==
    IF n > 10 + Len(PrimitiveKinds) THEN <<>>
    ELSE (IF n \in ms THEN <<[t |-> "member", type |-> zigType(n)]>> ELSE <<>>)
         \o memberLines(ms, n + 1)

\* lines 330-340: one line per non-null member of the union.
emitUnion(u) ==
    <<[t |-> "union"]>>
    \o memberLines({m \in types[u].members : types[m].kind # "null"}, 1)
    \o <<[t |-> "end"]>>

\* lines 342-361
emitLeadingComments ==
    IF leadingComments # Undefined
    THEN [i \in 1..Len(leadingComments[1]) |-> [t |-> "comment", text |-> leadingComments[1][i]]]
    ELSE <<[t |-> "defaultComment", model |-> decls.topLevels[1].name]>>

\* line 371: the top levels whose type has no name of its own.
isUnnamedTopLevel(topLevel) == ~topLevel.named

\* emitSourceStructure with the enums in front of the classes.
forEachOrderEnumsFirst == <<"topLevels", "enums", "classes", "unions">>

\* lines 368-376: the order of the forEach calls of emitSourceStructure.
forEachOrder == <<"topLevels", "classes", "unions", "enums">>

\* The items a forEach call visits.
forEachItems(which) ==
    CASE which = "topLevels" -> SelectSeq(decls.topLevels, isUnnamedTopLevel)
      [] which = "classes" -> decls.classes
      [] which = "unions" -> decls.unions
      [] which = "enums" -> decls.enums

\* The first callback from the k-th forEach call on, <<"done", 0>> without one.
RECURSIVE firstCallbackFrom(_)
firstCallbackFrom(k) ==
    IF k > Len(forEachOrder) THEN <<"done", 0>>
    ELSE IF Len(forEachItems(forEachOrder[k])) > 0 THEN <<forEachOrder[k], 1>>
         ELSE firstCallbackFrom(k + 1)

\* The callback that follows the current one.
nextCallback ==
    IF idx < Len(forEachItems(phase)) THEN <<phase, idx + 1>>
    ELSE firstCallbackFrom(1 + CHOOSE k \in 1..Len(forEachOrder) : forEachOrder[k] = phase)

\* lines 364-366
emitSourceStructureBegin ==
    /\ phase = "start"
    /\ out' = emitLeadingComments \o <<[t |-> "blank"], [t |-> "import"]>>
    /\ calls' = <<"emitLeadingComments", "import">>
    /\ phase' = firstCallbackFrom(1)[1]
    /\ idx' = firstCallbackFrom(1)[2]
    /\ UNCHANGED <<leadingComments, decls, types, declKind, props, renameFields>>

\* lines 368-372 and 291-292: the callback of forEachTopLevel; emitTopLevel is empty.
emitTopLevelCallback ==
    /\ phase = "topLevels"
    /\ out' = out \o blankBefore("leading", idx)
    /\ calls' = Append(calls, "emitTopLevel")
    /\ phase' = nextCallback[1]
    /\ idx' = nextCallback[2]
    /\ UNCHANGED <<leadingComments, decls, types, declKind, props, renameFields>>

\* line 374: the callback of forEachObject
emitClassCallback ==
    /\ phase = "classes"
    /\ out' = out \o blankBefore("leading-and-interposing", idx)
                  \o emitClass(decls.classes[idx])
    /\ calls' = Append(calls, "emitClass")
    /\ phase' = nextCallback[1]
    /\ idx' = nextCallback[2]
    /\ UNCHANGED <<leadingComments, decls, types, declKind, props, renameFields>>

\* line 375: the callback of forEachUnion
emitUnionCallback ==
    /\ phase = "unions"
    /\ out' = out \o blankBefore("leading-and-interposing", idx)
                  \o emitUnion(decls.unions[idx])
    /\ calls' = Append(calls, "emitUnion")
    /\ phase' = nextCallback[1]
    /\ idx' = nextCallback[2]
    /\ UNCHANGED <<leadingComments, decls, types, declKind, props, renameFields>>

\* line 376: the callback of forEachEnum
emitEnumCallback ==
    /\ phase = "enums"
    /\ out' = out \o blankBefore("leading-and-interposing", idx)
                  \o emitEnum(decls.enums[idx])
    /\ calls' = Append(calls, "emitEnum")
    /\ phase' = nextCallback[1]
    /\ idx' = nextCallback[2]
    /\ UNCHANGED <<leadingComments, decls, types, declKind, props, renameFields>>

(***************************************************************************)
(* Specifications                                                          *)
(***************************************************************************)
\* Any sequence of startFile, endFile and writes on one renderer.
NextFile ==
    \/ \E basename \in Basenames :
          startFile(basename) /\ UNCHANGED <<typeVars, structVars, driverVars>>
    \/ endFile /\ UNCHANGED <<typeVars, structVars, driverVars>>
    \/ emitLineToFile /\ UNCHANGED <<typeVars, structVars, driverVars>>

\* A new renderer: no file is open, none is finished.
InitFile ==
    /\ currentFilename = Undefined
    /\ finishedFiles = <<>>
    /\ emitContext = <<>>
    /\ lastCall = [op |-> "new", ok |-> TRUE]
    /\ openBase = Undefined
    /\ closedBases = {}
    /\ types = <<>> /\ isOptional = FALSE /\ stack = <<>> /\ pc = "idle" /\ acc = <<>>
    /\ declKind = "none" /\ props = <<>> /\ idx = 0 /\ renameFields = <<>> /\ out = <<>>
    /\ leadingComments = Undefined /\ decls = <<>> /\ phase = "idle" /\ calls = <<>>

SpecFile == InitFile /\ [][NextFile]_vars

\* One call of propertyZigType on the root of any type graph.
NextType ==
    \/ zigTypeCall /\ UNCHANGED <<fileVars, structVars, driverVars>>
    \/ zigTypeStackOverflow /\ UNCHANGED <<fileVars, structVars, driverVars>>
    \/ zigTypeLeaf /\ UNCHANGED <<fileVars, structVars, driverVars>>
    \/ zigTypeReturn /\ UNCHANGED <<fileVars, structVars, driverVars>>
    \/ \E optional \in BOOLEAN :
          propertyZigType(optional) /\ UNCHANGED <<fileVars, structVars, driverVars>>

\* propertyZigType is entered with a property whose type is the root of a graph.
InitType ==
    /\ types \in TypeGraphs
    /\ isOptional = FALSE
    /\ stack = <<Root>>
    /\ pc = "call"
    /\ acc = <<>>
    /\ currentFilename = Undefined /\ finishedFiles = <<>> /\ emitContext = <<>>
    /\ lastCall = [op |-> "new", ok |-> TRUE] /\ openBase = Undefined /\ closedBases = {}
    /\ declKind = "none" /\ props = <<>> /\ idx = 0 /\ renameFields = <<>> /\ out = <<>>
    /\ leadingComments = Undefined /\ decls = <<>> /\ phase = "idle" /\ calls = <<>>

SpecType == InitType /\ [][NextType]_vars

\* A table left by the declaration emitted before.
StaleTables == {<<>>, <<[name |-> <<"i", "d", "_", "1">>, json |-> <<"I", "D">>]>>}

NextStruct ==
    \/ emitStructBegin /\ UNCHANGED <<fileVars, isOptional, stack, pc, acc, driverVars>>
    \/ emitStructField /\ UNCHANGED <<fileVars, isOptional, stack, pc, acc, driverVars>>
    \/ emitEnumBegin /\ UNCHANGED <<fileVars, isOptional, stack, pc, acc, driverVars>>
    \/ emitEnumCase /\ UNCHANGED <<fileVars, isOptional, stack, pc, acc, driverVars>>
    \/ emitDeclarationEnd /\ UNCHANGED <<fileVars, isOptional, stack, pc, acc, driverVars>>

\* emitStruct or emitEnum is entered for a declaration whose names are resolved.
InitStruct ==
    /\ types = SampleGraph
    /\ \E ks \in KeyLists :
          \E names \in {assignNames(ks)} :
              \/ /\ declKind = "class"
                 /\ \E type \in PropertyTypes :
                    \E attrs \in [1..Len(ks) -> [isOptional : BOOLEAN, described : BOOLEAN]] :
                       props = [i \in 1..Len(ks) |->
                                  [name |-> names[i], jsonName |-> ks[i],
                                   isOptional |-> attrs[i].isOptional,
                                   type |-> type,
                                   described |-> attrs[i].described]]
              \/ /\ declKind = "enum"
                 /\ props = [i \in 1..Len(ks) |->
                               [name |-> names[i], jsonName |-> ks[i],
                                isOptional |-> FALSE, type |-> StringNode,
                                described |-> FALSE]]
    /\ idx = 0
    /\ renameFields \in StaleTables
    /\ out = <<>>
    /\ isOptional = FALSE /\ stack = <<>> /\ pc = "idle" /\ acc = <<>>
    /\ currentFilename = Undefined /\ finishedFiles = <<>> /\ emitContext = <<>>
    /\ lastCall = [op |-> "new", ok |-> TRUE] /\ openBase = Undefined /\ closedBases = {}
    /\ leadingComments = Undefined /\ decls = <<>> /\ phase = "idle" /\ calls = <<>>

SpecStruct == InitStruct /\ [][NextStruct]_vars

NextDriver ==
    \/ emitSourceStructureBegin /\ UNCHANGED <<fileVars, isOptional, stack, pc, acc>>
    \/ emitTopLevelCallback /\ UNCHANGED <<fileVars, isOptional, stack, pc, acc>>
    \/ emitClassCallback /\ UNCHANGED <<fileVars, isOptional, stack, pc, acc>>
    \/ emitUnionCallback /\ UNCHANGED <<fileVars, isOptional, stack, pc, acc>>
    \/ emitEnumCallback /\ UNCHANGED <<fileVars, isOptional, stack, pc, acc>>

\* The sequences of at most MaxDecls elements of a set.
UpTo(S) == UNION {[1..n -> S] : n \in 0..MaxDecls}

\* emitSourceStructure is entered for a graph with at least one top level.
InitDriver ==
    /\ types = SampleGraph
    /\ leadingComments \in {Undefined, Some(<<>>), Some(<<"c">>)}
    /\ \E named \in UpTo(BOOLEAN) \ {<<>>} :
       \E cs \in UpTo(DriverKeyLists) :
       \E n \in 0..MaxDecls :
       \E es \in UpTo(DriverKeyLists) :
          decls = [topLevels |-> [i \in 1..Len(named) |->
                                    [name |-> "TopLevel" \o ToString(i), named |-> named[i]]],
                   classes |-> [i \in 1..Len(cs) |-> declarationProps(cs[i])],
                   unions |-> [i \in 1..n |-> 2],
                   enums |-> [i \in 1..Len(es) |-> declarationProps(es[i])]]
    /\ phase = "start"
    /\ idx = 0
    /\ calls = <<>>
    /\ out = <<>>
    /\ declKind = "none" /\ props = <<>> /\ renameFields = <<>>
    /\ isOptional = FALSE /\ stack = <<>> /\ pc = "idle" /\ acc = <<>>
    /\ currentFilename = Undefined /\ finishedFiles = <<>> /\ emitContext = <<>>
    /\ lastCall = [op |-> "new", ok |-> TRUE] /\ openBase = Undefined /\ closedBases = {}

SpecDriver == InitDriver /\ [][NextDriver]_vars

(***************************************************************************)
(* Properties of zigType and propertyZigType (SpecType)                    *)
(***************************************************************************)
\* The members of a union without Null, and whether Null is a member.
nonNullMembers(u) == {m \in types[u].members : types[m].kind # "null"}
admitsNull(u) == \E m \in types[u].members : types[m].kind = "null"
isNullableUnion(u) ==
    types[u].kind = "union" /\ admitsNull(u) /\ Cardinality(nonNullMembers(u)) = 1
theNonNullMember(u) == CHOOSE m \in nonNullMembers(u) : TRUE

\* The type rendered inside the rendering of t: array items, map values, the
\* non-null member of a nullable union; 0 for every other type.
inlineChild(t) ==
    CASE types[t].kind \in {"array", "map"} -> types[t].items
      [] isNullableUnion(t) -> theNonNullMember(t)
      [] OTHER -> 0

\* Following inline children from t ends within fuel steps.
RECURSIVE inlineChainEnds(_, _)
inlineChainEnds(t, fuel) ==
    IF inlineChild(t) = 0 THEN TRUE
    ELSE IF fuel = 0 THEN FALSE
         ELSE inlineChainEnds(inlineChild(t), fuel - 1)

\* No cycle of array items, map values and nullable-union members is reachable
\* from t: every cycle passes through a class, an enum or a named union.
inlineAcyclic(t) == inlineChainEnds(t, NumCompound)

\* C3: a union {Null, T} renders as "?" followed by zigType(T) and never as the
\* name of a union declaration; every other union renders as its resolved name.
C3_NullableFlattening ==
    \A u \in CompoundNodes :
        types[u].kind = "union" =>
            IF isNullableUnion(u)
            THEN inlineAcyclic(u) =>
                    /\ zigType(u) = <<"?">> \o zigType(theNonNullMember(u))
                    /\ zigType(u) # <<nameForNamedType(u)>>
            ELSE zigType(u) = <<nameForNamedType(u)>>

\* C3 witness: propertyZigType of a required property of type {Null, String}
\* returned "?[]u8".
C3_Witness ==
    /\ pc = "done" /\ ~isOptional
    /\ isNullableUnion(Root) /\ theNonNullMember(Root) = StringNode
    /\ acc = <<"?", "[]u8">>

\* C4 (as claimed): a map renders as std.StringHashMap(V) with V the rendering
\* of its values; a value union that does not admit Null gets no "?".
C4_MapValueType ==
    \A m \in CompoundNodes :
        (types[m].kind = "map" /\ inlineAcyclic(m)) =>
            /\ zigType(m) = <<"std.StringHashMap(">> \o zigType(types[m].items) \o <<")">>
            /\ (types[types[m].items].kind = "union" /\ ~admitsNull(types[m].items))
                  => zigType(m)[2] # "?"

\* C9 (as claimed): on every graph zigType never exhausts the stack, and only
\* arrays, maps and nullable unions are ever descended into.
neverDescendsIntoNamed ==
    \A i \in 1..Len(stack) :
        (i < Len(stack) \/ pc = "ret") =>
            \/ types[stack[i]].kind \in {"array", "map"}
            \/ isNullableUnion(stack[i])

C9_TerminatesOnEveryGraph == pc # "overflow" /\ neverDescendsIntoNamed

\* C9 (amended): zigType never descends into a class, an enum or a named union,
\* and when no cycle of array items, map values and nullable-union members is
\* reachable from its argument, its recursion is no deeper than the number of
\* nodes on that chain and it never exhausts the stack.
C9_TerminatesOnInlineAcyclic ==
    /\ neverDescendsIntoNamed
    /\ inlineAcyclic(Root) =>
          /\ pc \in {"call", "ret", "done"}
          /\ Len(stack) <= NumCompound + 1

\* C9 witness: a recursive schema, an array of a class that has a property of
\* that array type, has been rendered.
C9_Witness ==
    /\ pc = "done"
    /\ types[Root].kind = "array"
    /\ types[types[Root].items].kind = "class"
    /\ Root \in types[types[Root].items].members
    /\ acc \in {<<"[]", "T2">>, <<"?", "[]", "T2">>}

\* C10: propertyZigType returns zigType(type) with exactly one "?" in front for
\* an optional property and none for a required one; an optional property of
\* type {Null, T} gets "?" twice.
C10_PropertyOptionalMarker ==
    pc = "done" =>
        /\ acc = (IF isOptional THEN <<"?">> ELSE <<>>) \o zigType(Root)
        /\ (isOptional /\ isNullableUnion(Root)) =>
              acc = <<"?", "?">> \o zigType(theNonNullMember(Root))

\* C10 witness: an optional property of type {Null, String} rendered "??[]u8".
C10_Witness ==
    /\ pc = "done" /\ isOptional
    /\ isNullableUnion(Root) /\ theNonNullMember(Root) = StringNode
    /\ acc = <<"?", "?", "[]u8">>

(***************************************************************************)
(* Properties of emitStruct / emitEnum (SpecStruct)                        *)
(***************************************************************************)
\* The declaration's callbacks have all run and its block is closed.
declarationEmitted == declKind \in {"class", "enum"} /\ idx = Len(props) + 2

\* The rename table has the pair of property or case i.
hasRename(i) ==
    \E j \in 1..Len(renameFields) :
        renameFields[j] = [name |-> props[i].name, json |-> props[i].jsonName]

\* C5: while a class or an enum is emitted, its table has the pair (name, key)
\* of a field or case exactly when that field or case has been emitted and its
\* resolved name differs from its key; it has nothing else, nothing twice.
C5_RenameFidelity ==
    idx >= 1 =>
        /\ \A i \in 1..Len(props) :
              hasRename(i) <=> (i < idx /\ props[i].name # props[i].jsonName)
        /\ \A j \in 1..Len(renameFields) :
              \E i \in 1..Len(props) :
                  renameFields[j] = [name |-> props[i].name, json |-> props[i].jsonName]
        /\ Len(renameFields) =
              Cardinality({i \in 1..Len(props) : i < idx /\ props[i].name # props[i].jsonName})

\* C5 witness: a declaration with an unrenamed and then a renamed field or case
\* has been emitted, and its table holds the one pair.
C5_Witness ==
    /\ declarationEmitted
    /\ Len(props) = 2 /\ Len(renameFields) = 1
    /\ props[1].name = props[1].jsonName
    /\ renameFields[1] = [name |-> props[2].name, json |-> props[2].jsonName]

\* Two properties whose keys style to the same identifier.
collide(i, j) ==
    /\ i < j
    /\ zigNameStyle(props[i].jsonName, TRUE) = zigNameStyle(props[j].jsonName, TRUE)

isDeclarationLine(line) == line.t \in {"description", "field", "case"}
isFieldOrCase(line) == line.t \in {"field", "case"}

renameLines(table) ==
    [i \in 1..Len(table) |-> [t |-> "rename", name |-> table[i].name, json |-> table[i].json]]

\* C7: an emitted class or enum is its opening line, its fields or cases, the
\* metadata and its closing line; the metadata is nothing for an empty table,
\* and otherwise the getty.db block followed by the getty.sb block, each with
\* every pair of the table once, in the table's order.
C7_RenameMetadata ==
    declarationEmitted =>
        /\ Len(SelectSeq(out, isFieldOrCase)) = Len(props)
        /\ out = <<[t |-> IF declKind = "class" THEN "struct" ELSE "enum"]>>
                 \o SelectSeq(out, isDeclarationLine)
                 \o (IF renameFields = <<>> THEN <<>>
                     ELSE <<[t |-> "blank"], [t |-> "getty", extension |-> "db"],
                            [t |-> "attributes"]>>
                          \o renameLines(renameFields)
                          \o <<[t |-> "endBlock"], [t |-> "endBlock"], [t |-> "blank"],
                               [t |-> "getty", extension |-> "sb"], [t |-> "attributes"]>>
                          \o renameLines(renameFields)
                          \o <<[t |-> "endBlock"], [t |-> "endBlock"]>>)
                 \o <<[t |-> "end"]>>

\* C7 witness: an enum with two renamed cases has been emitted with both blocks.
C7_Witness ==
    /\ declarationEmitted /\ declKind = "enum"
    /\ Len(renameFields) = 2
    /\ Len(out) = 18

(***************************************************************************)
(* Properties of emitSourceStructure (SpecDriver)                          *)
(***************************************************************************)
\* The place of a call, and of the opening line of a declaration, in the order
\* comment, import, top levels, classes, unions, enums.
callRank(call) ==
    CASE call = "emitLeadingComments" -> 1
      [] call = "import" -> 2
      [] call = "emitTopLevel" -> 3
      [] call = "emitClass" -> 4
      [] call = "emitUnion" -> 5
      [] call = "emitEnum" -> 6

lineRank(line) ==
    CASE line.t \in {"comment", "defaultComment"} -> 1
      [] line.t = "import" -> 2
      [] line.t = "struct" -> 4
      [] line.t = "union" -> 5
      [] line.t = "enum" -> 6
      [] OTHER -> 0

isCommentLine(line) == line.t = "comment"
isDefaultCommentLine(line) == line.t = "defaultComment"
isUnnamed(topLevel) == ~topLevel.named

\* n times the call
repeated(call, n) == [i \in 1..n |-> call]

C1_FileDiscipline ==
    [][/\ (lastCall'.op = "startFile" /\ currentFilename # Undefined) => ~lastCall'.ok
       /\ (lastCall'.op = "endFile" /\ currentFilename = Undefined) => ~lastCall'.ok
       /\ ~lastCall'.ok => UNCHANGED <<currentFilename, finishedFiles, emitContext>>
       /\ (lastCall'.op = "startFile" /\ currentFilename = Undefined)
             => (lastCall'.ok /\ currentFilename' # Undefined)
       /\ (lastCall'.op = "endFile" /\ currentFilename # Undefined)
             => (lastCall'.ok /\ currentFilename' = Undefined)]_vars

\* C1 witness: a startFile has failed on an open file after a file was finished.
C1_Witness ==
    /\ lastCall = [op |-> "startFile", ok |-> FALSE]
    /\ currentFilename # Undefined
    /\ DOMAIN finishedFiles # {}

\* The filename startFile derives from a basename.
filenameOf(basename) == toLowerCase(basename \o ZigExtension)

\* C2 (as claimed): the open file is named lower-case(basename + ".zig"), the
\* finished files are those of the completed pairs, and there are as many of
\* them as distinct names were given.
C2_OneEntryPerName ==
    /\ currentFilename # Undefined => currentFilename = Some(filenameOf(openBase[1]))
    /\ DOMAIN finishedFiles = {filenameOf(b) : b \in closedBases}
    /\ Cardinality(DOMAIN finishedFiles) = Cardinality(closedBases)

\* C2 (amended): the open file is named lower-case(basename + ".zig"), the
\* finished files are those of the completed pairs, one per distinct filename:
\* names that differ only in case share an entry.
C2_OneEntryPerFilename ==
    /\ currentFilename # Undefined => currentFilename = Some(filenameOf(openBase[1]))
    /\ DOMAIN finishedFiles = {filenameOf(b) : b \in closedBases}
    /\ Cardinality(DOMAIN finishedFiles) = Cardinality({toLowerCase(b) : b \in closedBases})

\* C2 witness: the pairs for Ab and B are completed and left two entries.
C2_Witness ==
    /\ closedBases = {<<"A", "b">>, <<"B">>}
    /\ DOMAIN finishedFiles = {<<"a", "b", ".", "z", "i", "g">>, <<"b", ".", "z", "i", "g">>}
    /\ currentFilename = Undefined

====
